---- MODULE Spec2Model ----
(***************************************************************************)
(* CTMP proxy (ctmp_proxy/src/main.rs): a single-threaded relay that       *)
(* accepts one source (producer) connection and many destination           *)
(* (consumer) connections, reads framed packets from the source,           *)
(* validates magic, length and (for sensitive packets) checksum, and       *)
(* writes every valid packet to every destination.                         *)
(*                                                                         *)
(* The relay is modelled at the granularity of its system calls: one       *)
(* action per accept, one per iteration of the read loop of                *)
(* read_from_source, one per write_all of broadcast_to_destinations.       *)
(* The peers (producer and consumers) and the network are the              *)
(* environment, seen through the results of those calls: a connection is   *)
(* waiting or not, some bytes of the stream have arrived or none, the      *)
(* producer has closed, a consumer's connection is broken.                 *)
(***************************************************************************)
EXTENDS Integers, Sequences, FiniteSets, TLC

\* ------------------------------------------------------------------ bounds
\* Each specification bounds the producer connections ever opened, the consumer
\* connections ever opened, and the packets sent by all producers together.
MaxConns == 1        \* Spec: the decoder, on packets of every kind
MaxConsumers == 1
MaxFrames == 1
FanConns == 1        \* SpecFanout: one packet, many consumers
FanConsumers == 3
FanFrames == 1
SwapConns == 2       \* SpecReplace: a producer replaces another
SwapConsumers == 1
SwapFrames == 2
SeqConns == 1        \* SpecOrder: packets back to back, two consumers
SeqConsumers == 2
SeqFrames == 2
RecConns == 2        \* SpecRecover: a producer fails, another follows
RecConsumers == 1
RecFrames == 2
EndConns == 2        \* SpecEnd: streams that end, in the middle of a packet or not
EndConsumers == 1
EndFrames == 1
BufConns == 1        \* SpecBuffer: more bytes than `buffer` holds
BufConsumers == 1
BufFrames == 2
SmallBuffer == 12    \* the length of `buffer` scaled to packets of 8 and 9 bytes
MaxPayload == 2      \* SpecChecksum: the checksum of packets of 8 to 8+MaxPayload bytes

\* ------------------------------------------------------- program constants
MAGIC == 204             \* 0xCC
SENSITIVE == 64          \* 0x40
HEADER_LEN == 8
CHECKSUM_WORD == 52428   \* 0xCCCC
CHECKSUM_OFFSET == 4
BUFFER_SIZE == 70000
U16 == 65536

VARIABLES
    pc,                   \* position of the main loop
    source_client,        \* Option<TcpStream>: 0 is None, else a connection id
    destination_clients,  \* Vec<TcpStream>: sequence of consumer ids
    buffer,               \* the bytes of `buffer` written since fill(0); the rest is 0
    total_bytes,          \* local of read_from_source
    ret,                  \* the last result of read_from_source ("None" while running)
    byte_count,           \* the Ok value matched in main
    idx,                  \* position of the iterator of broadcast_to_destinations
    nconn,                \* producer connections accepted so far
    sent,                 \* per producer connection: the packets it has sent
    nread,                \* per producer connection: bytes the relay has read
    peer,                 \* per producer connection: "open" or "fin" (end-of-stream seen)
    broken,               \* consumers on which a write fails
    wlog,                 \* history: every write_all attempt, in order
    completed,            \* history: every packet read_from_source returned Ok for
    origin,               \* history: the connections whose bytes are in `buffer`
    failed,               \* history: the errors read_from_source returned, per connection
    cs_pc,                \* calculate_checksum: "idle", "loop" or "done"
    cs_data,              \* packet_data[..packet_size]
    cs_size,              \* packet_size
    cs_i,                 \* i
    cs_sum,               \* sum, at the end of an iteration
    cs_peak,              \* history: the largest value sum has held in this call
    calls                 \* history: the calls of check_checksum made, in order

relay_vars == <<pc, source_client, destination_clients, buffer, total_bytes, ret,
                byte_count, idx, nconn, sent, nread, peer, broken, wlog,
                completed, origin, failed>>

cs_vars == <<cs_pc, cs_data, cs_size, cs_i, cs_sum, cs_peak, calls>>

vars == <<relay_vars, cs_vars>>

Conns == 1..nconn

Min(a, b) == IF a < b THEN a ELSE b

\* --------------------------------------------------------------- checksum

\* Bug: the checksum field is summed as it is.
Word_KeepField(packet_data, packet_size, i) ==
    packet_data[i + 1] * 256
    + (IF i + 1 < packet_size THEN packet_data[i + 2] ELSE 0)

\* Bug: an odd last byte is the low byte of its word.
Word_LowPad(packet_data, packet_size, i) ==
    IF i = CHECKSUM_OFFSET THEN CHECKSUM_WORD
    ELSE IF i + 1 < packet_size THEN packet_data[i + 1] * 256 + packet_data[i + 2]
    ELSE packet_data[i + 1]

\* The 16-bit word at byte offset i (0-based) of the first `size` bytes.
Word(packet_data, packet_size, i) ==
    IF i = CHECKSUM_OFFSET THEN CHECKSUM_WORD
    ELSE packet_data[i + 1] * 256
         + (IF i + 1 < packet_size THEN packet_data[i + 2] ELSE 0)

\* Bug: the carry is dropped.
FoldCarry_DropCarry(sum) == sum % U16

\* Lines 48-51. `sum` is a u32; it is at most 0xFFFF before a word is added, so
\* the addition stays below 2^17 and never wraps.
FoldCarry(sum) == IF sum > 65535 THEN (sum % U16) + 1 ELSE sum

RECURSIVE SumWords(_, _, _, _)
SumWords(packet_data, packet_size, i, sum) ==
    IF i >= packet_size THEN sum
    ELSE SumWords(packet_data, packet_size, i + 2,
                  FoldCarry(sum + Word(packet_data, packet_size, i)))

\* !sum as u16
calculate_checksum(packet_data, packet_size) ==
    (U16 - 1) - (SumWords(packet_data, packet_size, 0, 0) % U16)

StoredChecksum(packet_data) == packet_data[5] * 256 + packet_data[6]

check_checksum(packet_data, packet_size) ==
    StoredChecksum(packet_data) = calculate_checksum(packet_data, packet_size)

\* ------------------------------------------------- the producer's packets

Payload(n) == [i \in 1..n |-> i]

Header(magic, flags, n, ck, r6, r7) ==
    <<magic, flags, n \div 256, n % 256, ck \div 256, ck % 256, r6, r7>>

\* A packet with its checksum field set to the checksum of the packet.
Seal(p) ==
    LET ck == calculate_checksum(p, Len(p))
    IN  [p EXCEPT ![5] = ck \div 256, ![6] = ck % 256]

\* A packet one of whose bytes (the last one) was changed after sealing.
Corrupt(p) == [p EXCEPT ![Len(p)] = (p[Len(p)] + 1) % 256]

\* Every kind of packet, and the kinds of valid packets.
Kinds == {"plain", "junk", "sealed", "stale", "badmagic", "forged", "cut"}
ValidKinds == {"plain", "sealed"}
FaultKinds == {"sealed", "stale", "badmagic", "cut"}
EndKinds == {"plain", "cut"}

Packet(kind) ==
    CASE kind = "plain"    -> Header(MAGIC, 0, 0, 0, 0, 0)
      [] kind = "junk"     -> Header(MAGIC, 1, 1, 4660, 86, 120) \o Payload(1)
      [] kind = "sealed"   -> Seal(Header(MAGIC, SENSITIVE, 1, 0, 0, 0) \o Payload(1))
      [] kind = "stale"    -> Corrupt(Seal(Header(MAGIC, SENSITIVE, 1, 0, 0, 0) \o Payload(1)))
      [] kind = "badmagic" -> Header(171, 0, 0, 0, 0, 0)
      [] kind = "forged"   -> Header(171, SENSITIVE, 1, 4660, 0, 0) \o Payload(1)
      [] kind = "cut"      -> SubSeq(Header(MAGIC, SENSITIVE, 1, 0, 0, 0), 1, 4)

Packets(kinds) == {Packet(k) : k \in kinds}

\* The streams a producer may send: up to mf packets.
Streams(mf, kinds) == UNION {[1..m -> Packets(kinds)] : m \in 0..mf}

\* No read returns more than every byte the producers ever send.
MaxRead(mf) == mf * (HEADER_LEN + 1)

RECURSIVE Bytes(_)
Bytes(frames) == IF frames = <<>> THEN <<>> ELSE Head(frames) \o Bytes(Tail(frames))

Stream(c) == Bytes(sent[c])

FramesSent ==
    LET RECURSIVE Count(_)
        Count(c) == IF c = 0 THEN 0 ELSE Len(sent[c]) + Count(c - 1)
    IN  Count(nconn)

\* ---------------------------------------------------------------- decoder

expected_length(buf) == buf[3] * 256 + buf[4]

\* Bug: the wrong flag bit (0x01) is tested.
IsSensitive_WrongBit(buf) == buf[2] % 2 = 1

\* Line 114: buffer[1] & 0x40 > 0.
IsSensitive(buf) == (buf[2] \div SENSITIVE) % 2 = 1

\* Bug: the payload is not waited for.
LengthMismatch_Early(total, buf) == total - HEADER_LEN > expected_length(buf)

\* Line 108.
LengthMismatch(total, buf) == total - HEADER_LEN # expected_length(buf)

\* Bug: the magic byte is checked before the header is complete.
Decide_MagicFirst(buf, total) ==
    IF buf[1] # MAGIC THEN "InvalidMagic"
    ELSE IF total < HEADER_LEN THEN "continue"
    ELSE IF LengthMismatch(total, buf) THEN "continue"
    ELSE IF IsSensitive(buf) /\ ~check_checksum(buf, total) THEN "ChecksumWrong"
    ELSE "Ok"

\* Bug: the magic byte is checked once the declared payload is there.
Decide_LengthFirst(buf, total) ==
    IF total < HEADER_LEN THEN "continue"
    ELSE IF LengthMismatch(total, buf) THEN "continue"
    ELSE IF buf[1] # MAGIC THEN "InvalidMagic"
    ELSE IF IsSensitive(buf) /\ ~check_checksum(buf, total) THEN "ChecksumWrong"
    ELSE "Ok"

\* Lines 95-118: what one iteration does once the read has added bytes.
Decide(buf, total) ==
    IF total < HEADER_LEN THEN "continue"
    ELSE IF buf[1] # MAGIC THEN "InvalidMagic"
    ELSE IF LengthMismatch(total, buf) THEN "continue"
    ELSE IF IsSensitive(buf) /\ ~check_checksum(buf, total) THEN "ChecksumWrong"
    ELSE "Ok"

Unread(c) == Len(Stream(c)) - nread[c]

\* Bug: a read into the empty slice of a full buffer finds no data.
SourceRead_FullWaits(room, n, eof) ==
    IF n > 0 THEN [kind |-> "Ok", n |-> n]
    ELSE IF eof THEN [kind |-> "Ok", n |-> 0]
    ELSE [kind |-> "WouldBlock", n |-> 0]

\* source.read(&mut buffer[total_bytes..]) on a non-blocking TcpStream, when n
\* bytes of the stream are in the socket's receive queue (and fit in the slice),
\* eof telling that the producer has closed its end behind them.
SourceRead(room, n, eof) ==
    IF n > 0 THEN [kind |-> "Ok", n |-> n]
    ELSE IF room = 0 \/ eof
         THEN [kind |-> "Ok", n |-> 0]
         ELSE [kind |-> "WouldBlock", n |-> 0]

\* The result of one iteration of the loop of read_from_source.
Outcome(r, buf, total) ==
    IF r.kind # "Ok" THEN r.kind
    ELSE IF r.n = 0 THEN "NoMoreData"
    ELSE Decide(buf, total)

\* ------------------------------------------------------------------- Init

RelayInit ==
    /\ pc = "accept_source"
    /\ source_client = 0
    /\ destination_clients = <<>>
    /\ buffer = <<>>
    /\ total_bytes = 0
    /\ ret = "None"
    /\ byte_count = 0
    /\ idx = 0
    /\ nconn = 0
    /\ sent = <<>>
    /\ nread = <<>>
    /\ peer = <<>>
    /\ broken = {}
    /\ wlog = <<>>
    /\ completed = <<>>
    /\ origin = {}
    /\ failed = {}

\* No call of the checksum is under observation.
ChecksumIdle ==
    /\ cs_pc = "idle"
    /\ cs_data = <<>>
    /\ cs_size = 0
    /\ cs_i = 0
    /\ cs_sum = 0
    /\ cs_peak = 0
    /\ calls = <<>>

Init == RelayInit /\ ChecksumIdle

\* ------------------------------------------------------------------ relay

\* Lines 141-152: the top of the loop of main. The locals of the previous
\* iteration (the matched Result, total_bytes, byte_count, the iterator) are gone.
\* source_socket.accept() finds a producer waiting (pending) or does not; a
\* producer that connected has sent `frames`, whose bytes reach the relay's
\* socket in fragments of any size, at any time (the n of ReadLoop).
AcceptSource(pending, frames, mc, mf) ==
    /\ pc = "accept_source"
    /\ pc' = "accept_destination"
    /\ IF pending
       THEN /\ nconn < mc
            /\ FramesSent + Len(frames) <= mf
            /\ nconn' = nconn + 1
            /\ source_client' = nconn + 1
            /\ sent' = Append(sent, frames)
            /\ nread' = Append(nread, 0)
            /\ peer' = Append(peer, "open")
       ELSE /\ frames = <<>>
            /\ UNCHANGED <<source_client, nconn, sent, nread, peer>>
    /\ ret' = "None"
    /\ total_bytes' = 0
    /\ byte_count' = 0
    /\ idx' = 0
    /\ UNCHANGED <<destination_clients, buffer, broken, wlog, completed, origin,
                   failed>>
    /\ UNCHANGED cs_vars

\* Lines 154-160. destination_socket.accept() finds a consumer waiting or not.
AcceptDestination(pending, md) ==
    /\ pc = "accept_destination"
    /\ pc' = "poll_source"
    /\ IF pending
       THEN /\ Len(destination_clients) < md
            /\ destination_clients' =
                  Append(destination_clients, Len(destination_clients) + 1)
       ELSE UNCHANGED destination_clients
    /\ UNCHANGED <<source_client, buffer, total_bytes, ret, byte_count, idx, nconn,
                   sent, nread, peer, broken, wlog, completed, origin, failed>>
    /\ UNCHANGED cs_vars

\* Bug: the buffer and the count are kept from the previous call.
PollSource_KeepBuffer ==
    /\ pc = "poll_source"
    /\ IF source_client = 0
       THEN /\ pc' = "accept_source"
            /\ UNCHANGED <<total_bytes, ret>>
       ELSE /\ pc' = "read_loop"
            /\ total_bytes' = Len(buffer)
            /\ ret' = "None"
    /\ UNCHANGED <<source_client, destination_clients, buffer, byte_count, idx,
                   nconn, sent,
                   nread, peer, broken, wlog, completed, origin, failed>>
    /\ UNCHANGED cs_vars

\* Lines 163-164 and the entry of read_from_source, lines 80-82.
PollSource ==
    /\ pc = "poll_source"
    /\ IF source_client = 0
       THEN /\ pc' = "accept_source"
            /\ UNCHANGED <<buffer, total_bytes, ret, origin>>
       ELSE /\ pc' = "read_loop"
            /\ buffer' = <<>>
            /\ total_bytes' = 0
            /\ ret' = "None"
            /\ origin' = {}
    /\ UNCHANGED <<source_client, destination_clients, byte_count, idx,
                   nconn, sent,
                   nread, peer, broken, wlog, completed, failed>>
    /\ UNCHANGED cs_vars

\* ReadLoop with a different end for a call that returns an error other than
\* WouldBlock: the consumer set and the current producer it leaves behind.
ReadLoop_Variant(n, eof, cap, dests_after, source_after) ==
    /\ pc = "read_loop"
    /\ n <= Min(Unread(source_client), cap - total_bytes)
    /\ eof => (n = 0 /\ Unread(source_client) = 0)
    /\ peer[source_client] = "fin" => eof
    /\ LET c    == source_client
           r    == SourceRead(cap - total_bytes, n, eof)
           data == SubSeq(Stream(c), nread[c] + 1, nread[c] + r.n)
           buf  == buffer \o data
           tot  == total_bytes + r.n
           out  == Outcome(r, buf, tot)
           err  == out \notin {"continue", "Ok", "WouldBlock"}
       IN  /\ buffer' = buf
           /\ total_bytes' = tot
           /\ nread' = [nread EXCEPT ![c] = @ + r.n]
           /\ peer' = IF eof THEN [peer EXCEPT ![c] = "fin"] ELSE peer
           /\ origin' = IF r.n > 0 THEN origin \cup {c} ELSE origin
           /\ ret' = IF out = "continue" THEN ret ELSE out
           /\ pc' = CASE out = "continue" -> "read_loop"
                      [] out = "Ok"       -> "broadcast"
                      [] OTHER            -> "accept_source"
           /\ failed' = IF err THEN failed \cup {<<c, out>>} ELSE failed
           /\ byte_count' = IF out = "Ok" THEN tot ELSE byte_count
           /\ idx' = IF out = "Ok" THEN 1 ELSE idx
           /\ completed' = IF out = "Ok"
                           THEN Append(completed,
                                       [data  |-> buf, conn |-> c,
                                        upto  |-> nread[c] + r.n,
                                        dests |-> destination_clients])
                           ELSE completed
           /\ destination_clients' = IF err THEN dests_after ELSE destination_clients
           /\ source_client' = IF err THEN source_after ELSE source_client
    /\ UNCHANGED <<nconn, sent, broken, wlog>>
    /\ UNCHANGED cs_vars

\* Bug: an error of the producer's stream uninstalls the producer.
ReadLoop_ErrorDropsProducer(n, eof, cap) ==
    ReadLoop_Variant(n, eof, cap, destination_clients, 0)

\* Bug: an error of the producer's stream drops the consumers.
ReadLoop_ErrorDropsConsumers(n, eof, cap) ==
    ReadLoop_Variant(n, eof, cap, <<>>, source_client)

\* One iteration of the loop of read_from_source, lines 84-119, and, when it
\* returns, the match of main, lines 164-167. cap is the length of `buffer`.
ReadLoop(n, eof, cap) ==
    /\ pc = "read_loop"
    /\ n <= Min(Unread(source_client), cap - total_bytes)
    /\ eof => (n = 0 /\ Unread(source_client) = 0)
    /\ peer[source_client] = "fin" => eof
    /\ LET c    == source_client
           r    == SourceRead(cap - total_bytes, n, eof)
           data == SubSeq(Stream(c), nread[c] + 1, nread[c] + r.n)
           buf  == buffer \o data
           tot  == total_bytes + r.n
           out  == Outcome(r, buf, tot)
       IN  /\ buffer' = buf
           /\ total_bytes' = tot
           /\ nread' = [nread EXCEPT ![c] = @ + r.n]
           /\ peer' = IF eof THEN [peer EXCEPT ![c] = "fin"] ELSE peer
           /\ origin' = IF r.n > 0 THEN origin \cup {c} ELSE origin
           /\ ret' = IF out = "continue" THEN ret ELSE out
           /\ pc' = CASE out = "continue" -> "read_loop"
                      [] out = "Ok"       -> "broadcast"
                      [] OTHER            -> "accept_source"
           /\ failed' = IF out \in {"continue", "Ok", "WouldBlock"} THEN failed
                        ELSE failed \cup {<<c, out>>}
           /\ byte_count' = IF out = "Ok" THEN tot ELSE byte_count
           /\ idx' = IF out = "Ok" THEN 1 ELSE idx
           /\ completed' = IF out = "Ok"
                           THEN Append(completed,
                                       [data  |-> buf, conn |-> c,
                                        upto  |-> nread[c] + r.n,
                                        dests |-> destination_clients])
                           ELSE completed
    /\ UNCHANGED <<source_client, destination_clients, nconn, sent, broken, wlog>>
    /\ UNCHANGED cs_vars

\* Bug: only the payload is forwarded.
WriteData_PayloadOnly == SubSeq(buffer, HEADER_LEN + 1, byte_count)

\* Line 125: &buffer[..buffer_size].
WriteData == SubSeq(buffer, 1, byte_count)

\* Bug: a failed write ends the broadcast.
Broadcast_StopOnError(fails) ==
    /\ pc = "broadcast"
    /\ idx <= Len(destination_clients)
    /\ destination_clients[idx] \in broken => fails
    /\ broken' = IF fails THEN broken \cup {destination_clients[idx]} ELSE broken
    /\ LET d == destination_clients[idx]
       IN  /\ wlog' = Append(wlog, [dest |-> d, data |-> WriteData,
                                    ok |-> ~fails, k |-> Len(completed)])
           /\ pc' = IF fails THEN "accept_source" ELSE pc
    /\ idx' = idx + 1
    /\ UNCHANGED <<source_client, destination_clients, buffer, total_bytes, ret,
                   byte_count, nconn,
                   sent, nread, peer, completed, origin, failed>>
    /\ UNCHANGED cs_vars

\* Bug: the broadcast returns to the loop of main after its first write.
Broadcast_ReturnsEarly(fails) ==
    /\ pc = "broadcast"
    /\ idx <= Len(destination_clients)
    /\ destination_clients[idx] \in broken => fails
    /\ broken' = IF fails THEN broken \cup {destination_clients[idx]} ELSE broken
    /\ LET d == destination_clients[idx]
       IN  wlog' = Append(wlog, [dest |-> d, data |-> WriteData,
                                 ok |-> ~fails, k |-> Len(completed)])
    /\ pc' = "accept_source"
    /\ idx' = idx + 1
    /\ UNCHANGED <<source_client, destination_clients, buffer, total_bytes, ret,
                   byte_count, nconn,
                   sent, nread, peer, completed, origin, failed>>
    /\ UNCHANGED cs_vars

\* Bug: a failed write is tried again.
Broadcast_Retry(fails) ==
    /\ pc = "broadcast"
    /\ idx <= Len(destination_clients)
    /\ destination_clients[idx] \in broken => fails
    /\ broken' = IF fails THEN broken \cup {destination_clients[idx]} ELSE broken
    /\ LET d == destination_clients[idx]
       IN  wlog' = Append(wlog, [dest |-> d, data |-> WriteData,
                                 ok |-> ~fails, k |-> Len(completed)])
    /\ idx' = IF fails THEN idx ELSE idx + 1
    /\ UNCHANGED <<pc, source_client, destination_clients, buffer, total_bytes, ret,
                   byte_count, nconn,
                   sent, nread, peer, completed, origin, failed>>
    /\ UNCHANGED cs_vars

\* Bug: a consumer whose write failed is removed from the set.
Broadcast_DropsFailed(fails) ==
    /\ pc = "broadcast"
    /\ idx <= Len(destination_clients)
    /\ destination_clients[idx] \in broken => fails
    /\ broken' = IF fails THEN broken \cup {destination_clients[idx]} ELSE broken
    /\ LET d == destination_clients[idx]
       IN  wlog' = Append(wlog, [dest |-> d, data |-> WriteData,
                                 ok |-> ~fails, k |-> Len(completed)])
    /\ IF fails
       THEN /\ destination_clients' =
                  SubSeq(destination_clients, 1, idx - 1)
                  \o SubSeq(destination_clients, idx + 1, Len(destination_clients))
            /\ idx' = idx
       ELSE /\ destination_clients' = destination_clients
            /\ idx' = idx + 1
    /\ UNCHANGED <<pc, source_client, buffer, total_bytes, ret, byte_count, nconn,
                   sent, nread, peer, completed, origin, failed>>
    /\ UNCHANGED cs_vars

\* One iteration of the loop of broadcast_to_destinations, lines 124-129.
\* write_all fails when the consumer's connection is found broken (fails), and
\* a connection once broken stays so.
Broadcast(fails) ==
    /\ pc = "broadcast"
    /\ idx <= Len(destination_clients)
    /\ destination_clients[idx] \in broken => fails
    /\ broken' = IF fails THEN broken \cup {destination_clients[idx]} ELSE broken
    /\ LET d == destination_clients[idx]
       IN  wlog' = Append(wlog, [dest |-> d,
                                 data |-> WriteData,
                                 ok   |-> ~fails,
                                 k    |-> Len(completed)])
    /\ idx' = idx + 1
    /\ UNCHANGED <<pc, source_client, destination_clients, buffer, total_bytes, ret,
                   byte_count, nconn,
                   sent, nread, peer, completed, origin, failed>>
    /\ UNCHANGED cs_vars

\* Line 157 pushes the accepted stream as accept returned it: where accepted
\* sockets do not inherit the listener's non-blocking mode (Linux), write_all
\* waits when the consumer does not drain its connection and the socket's
\* buffers are full.
WriteBlocks ==
    /\ pc = "broadcast"
    /\ idx <= Len(destination_clients)
    /\ destination_clients[idx] \notin broken
    /\ pc' = "write_blocked"
    /\ UNCHANGED <<source_client, destination_clients, buffer, total_bytes, ret,
                   byte_count, idx, nconn, sent, nread, peer, broken, wlog,
                   completed, origin, failed>>
    /\ UNCHANGED cs_vars

\* The consumer drains again, or its connection breaks: write_all goes on.
WriteResumes ==
    /\ pc = "write_blocked"
    /\ pc' = "broadcast"
    /\ UNCHANGED <<source_client, destination_clients, buffer, total_bytes, ret,
                   byte_count, idx, nconn, sent, nread, peer, broken, wlog,
                   completed, origin, failed>>
    /\ UNCHANGED cs_vars

\* The iterator is exhausted: back to the top of the loop of main.
BroadcastDone ==
    /\ pc = "broadcast"
    /\ idx > Len(destination_clients)
    /\ pc' = "accept_source"
    /\ UNCHANGED <<source_client, destination_clients, buffer, total_bytes, ret,
                   byte_count, idx, nconn,
                   sent, nread, peer, broken, wlog, completed,
                   origin, failed>>
    /\ UNCHANGED cs_vars

Next(mc, md, mf, kinds, cap) ==
    \/ \E pending \in BOOLEAN, frames \in Streams(mf, kinds) :
          AcceptSource(pending, frames, mc, mf)
    \/ \E pending \in BOOLEAN : AcceptDestination(pending, md)
    \/ PollSource
    \/ \E n \in 0..MaxRead(mf), eof \in BOOLEAN : ReadLoop(n, eof, cap)
    \/ \E fails \in BOOLEAN : Broadcast(fails)
    \/ WriteBlocks
    \/ WriteResumes
    \/ BroadcastDone

\* The decoder: one producer, one consumer, one packet of any kind.
Spec == Init /\ [][Next(MaxConns, MaxConsumers, MaxFrames, Kinds, BUFFER_SIZE)]_vars

\* The broadcast: one producer, one valid packet, three consumers.
SpecFanout == Init /\ [][Next(FanConns, FanConsumers, FanFrames, ValidKinds, BUFFER_SIZE)]_vars

\* Replacement: two producers, two header-only packets, one consumer.
SpecReplace == Init /\ [][Next(SwapConns, SwapConsumers, SwapFrames, {"plain"}, BUFFER_SIZE)]_vars

\* Order: one producer, two valid packets, two consumers.
SpecOrder == Init /\ [][Next(SeqConns, SeqConsumers, SeqFrames, ValidKinds, BUFFER_SIZE)]_vars

\* Recovery: two producers, two packets, valid or faulty, one consumer.
SpecRecover ==
    Init /\ [][Next(RecConns, RecConsumers, RecFrames, FaultKinds, BUFFER_SIZE)]_vars

\* End of stream: two producers, one packet, whole or cut short, one consumer.
SpecEnd ==
    Init /\ [][Next(EndConns, EndConsumers, EndFrames, EndKinds, BUFFER_SIZE)]_vars

\* The buffer: one producer, two valid packets, one consumer, and a buffer
\* that holds one packet but not two, as the buffer of 70000 bytes holds one
\* packet of the largest size (8 + 65535 bytes) but not two.
SpecBuffer ==
    Init /\ [][Next(BufConns, BufConsumers, BufFrames, ValidKinds, SmallBuffer)]_vars

\* ------------------------------------------------- the checksum, call by call

\* The byte values the packets under checksum are made of, their flags (both
\* sensitive) and the words their checksum field holds at first.
ByteVals == {0, 128, 255}
SensitiveFlags == {SENSITIVE, 255}
StoredWords == {0, CHECKSUM_WORD, U16 - 1}

\* Packets of 8 to 8+MaxPayload bytes.
InputFrames ==
    UNION {{Header(MAGIC, f, m, ck, r6, r7) \o pl :
                f \in SensitiveFlags, ck \in StoredWords,
                r6 \in ByteVals, r7 \in ByteVals, pl \in [1..m -> ByteVals]} :
           m \in 0..MaxPayload}

\* The protocol's checksum, as its senders compute it: the big-endian 16-bit
\* words (an odd last byte is the high byte of a zero-padded word, the word of
\* the checksum field counts as 0xCCCC) are added in a wide accumulator, the
\* carries are folded in afterwards, and the result is complemented.
RefWord(data, size, k) ==
    IF k = CHECKSUM_OFFSET THEN CHECKSUM_WORD
    ELSE IF k + 1 < size THEN data[k + 1] * 256 + data[k + 2]
    ELSE data[k + 1] * 256

RECURSIVE RefSum(_, _, _)
RefSum(data, size, k) ==
    IF k >= size THEN 0 ELSE RefWord(data, size, k) + RefSum(data, size, k + 2)

RECURSIVE RefFold(_)
RefFold(x) == IF x > U16 - 1 THEN RefFold((x % U16) + (x \div U16)) ELSE x

RefChecksum(data, size) == (U16 - 1) - RefFold(RefSum(data, size, 0))

\* Byte x with bit b flipped.
Toggle(x, b) == IF (x \div (2 ^ b)) % 2 = 1 THEN x - 2 ^ b ELSE x + 2 ^ b

\* check_checksum(&data, Len(data)) is called: the entry of calculate_checksum,
\* lines 31-32.
CallChecksum(data) ==
    /\ cs_pc' = "loop"
    /\ cs_data' = data
    /\ cs_size' = Len(data)
    /\ cs_i' = 0
    /\ cs_sum' = 0
    /\ cs_peak' = 0

InitChecksum ==
    /\ RelayInit
    /\ cs_pc = "loop"
    /\ cs_data \in InputFrames
    /\ cs_size = Len(cs_data)
    /\ cs_i = 0
    /\ cs_sum = 0
    /\ cs_peak = 0
    /\ calls = <<>>

\* One iteration of the loop of calculate_checksum, lines 34-52.
SumStep ==
    /\ cs_pc = "loop"
    /\ cs_i < cs_size
    /\ LET added == cs_sum + Word(cs_data, cs_size, cs_i)
       IN  /\ cs_sum' = FoldCarry(added)
           /\ cs_peak' = IF added > cs_peak THEN added ELSE cs_peak
    /\ cs_i' = cs_i + 2
    /\ UNCHANGED <<relay_vars, cs_pc, cs_data, cs_size, calls>>

\* Line 54, and the comparison of check_checksum, lines 60-68.
SumReturn ==
    /\ cs_pc = "loop"
    /\ cs_i >= cs_size
    /\ cs_pc' = "done"
    /\ LET actual_checksum == (U16 - 1) - (cs_sum % U16)
       IN  calls' = Append(calls, [data  |-> cs_data,
                                   size  |-> cs_size,
                                   value |-> actual_checksum,
                                   peak  |-> cs_peak,
                                   ok    |-> StoredChecksum(cs_data) = actual_checksum])
    /\ UNCHANGED <<relay_vars, cs_data, cs_size, cs_i, cs_sum, cs_peak>>

\* The sender seals the packet: it writes the protocol's checksum into bytes
\* 4-5, and the packet is checked again.
Stamp ==
    /\ cs_pc = "done"
    /\ Len(calls) = 1
    /\ LET ck == RefChecksum(cs_data, cs_size)
       IN  CallChecksum([cs_data EXCEPT ![5] = ck \div 256, ![6] = ck % 256])
    /\ UNCHANGED <<relay_vars, calls>>

\* Bit b of the byte at offset at - 1, outside the checksum field, is flipped
\* on the way, and the packet is checked again.
FlipBit(at, b) ==
    /\ cs_pc = "done"
    /\ Len(calls) = 2
    /\ at \in (1..cs_size) \ {5, 6}
    /\ CallChecksum([cs_data EXCEPT ![at] = Toggle(@, b)])
    /\ UNCHANGED <<relay_vars, calls>>

NextChecksum ==
    \/ SumStep
    \/ SumReturn
    \/ Stamp
    \/ \E at \in 1..(HEADER_LEN + MaxPayload), b \in 0..7 : FlipBit(at, b)

\* calculate_checksum and check_checksum on packets of the protocol, sealed by
\* their sender, then with one bit flipped.
SpecChecksum == InitChecksum /\ [][NextChecksum]_vars

\* ================================================================= claims

\* The protocol's "sensitive" flag: bit 0x40 of byte 1 (the values 64..127 and
\* 192..255 of the byte).
FlagSensitive(p) == p[2] \in (64..127) \cup (192..255)

\* A packet as the protocol defines a valid one.
ValidFrame(p) ==
    /\ Len(p) >= HEADER_LEN
    /\ p[1] = MAGIC
    /\ Len(p) = HEADER_LEN + expected_length(p)
    /\ FlagSensitive(p) => check_checksum(p, Len(p))

\* The accumulated bytes.
Accumulated == SubSeq(buffer, 1, total_bytes)

\* The write attempts made for the k-th Ok packet.
FrameWrites(k) == SelectSeq(wlog, LAMBDA w : w.k = k)

\* broadcast_to_destinations is running.
InBroadcast == pc \in {"broadcast", "write_blocked"}

\* How many consumers the broadcast of the k-th Ok packet has visited.
Visited(k) ==
    IF k = Len(completed) /\ InBroadcast THEN idx - 1
    ELSE Len(completed[k].dests)

\* C1: every packet read_from_source returns Ok for has 8+N bytes, is byte for
\* byte a segment of what its producer sent, and is written whole, once, to each
\* consumer of destination_clients as it was at that moment, in insertion order.
C1_VerbatimFanout ==
    /\ InBroadcast =>
          /\ completed[Len(completed)].dests = destination_clients
          /\ completed[Len(completed)].data = SubSeq(buffer, 1, byte_count)
    /\ \A k \in 1..Len(completed) :
          LET f == completed[k]
              W == FrameWrites(k)
          IN  /\ Len(f.data) = HEADER_LEN + expected_length(f.data)
              /\ f.data = SubSeq(Stream(f.conn), f.upto - Len(f.data) + 1, f.upto)
              /\ Len(W) = Visited(k)
              /\ \A i \in 1..Len(W) : W[i].dest = f.dests[i] /\ W[i].data = f.data

C1_Witness ==
    \E k \in 1..Len(completed) :
        /\ Len(completed[k].data) = HEADER_LEN + 1
        /\ Len(completed[k].dests) = 2
        /\ Len(FrameWrites(k)) = 2
        /\ \A i \in 1..2 : FrameWrites(k)[i].ok

\* The packets decoded from connection c, in order.
FromConn(c) == SelectSeq(completed, LAMBDA f : f.conn = c)

AllValid(frames) == \A i \in 1..Len(frames) : ValidFrame(frames[i])

\* C2: the current producer sent two or more valid packets back to back, the
\* relay has read every byte of them and is back at the top of its loop: each
\* packet was decoded as Ok, once, in order.
C2_EveryFrameDecoded ==
    \A c \in Conns :
        (/\ c = source_client
         /\ Len(sent[c]) >= 2
         /\ AllValid(sent[c])
         /\ Unread(c) = 0
         /\ pc = "accept_source") =>
            [i \in 1..Len(FromConn(c)) |-> FromConn(c)[i].data] = sent[c]

\* C3: the current producer sent one valid packet: whatever the fragments and
\* the polls without data between them, the bytes read so far are the
\* accumulated bytes, and once all were read the packet was decoded as Ok.
C3_FragmentsAccumulate ==
    \A c \in Conns :
        (/\ c = source_client
         /\ Len(sent[c]) = 1
         /\ ValidFrame(sent[c][1])) =>
            /\ (pc = "read_loop" /\ FromConn(c) = <<>>) =>
                  Accumulated = SubSeq(Stream(c), 1, nread[c])
            /\ (pc = "accept_source" /\ Unread(c) = 0) => Len(FromConn(c)) = 1

\* C4: read_from_source returns Ok only with total_bytes = 8+N, N the declared
\* length; while the accumulated bytes (good magic) are fewer than 8+N it keeps
\* reading or finds no data; it never asks for another byte once it holds 8+N
\* bytes of a valid packet.
C4_ExactLength ==
    /\ ret = "Ok" =>
          /\ total_bytes = HEADER_LEN + expected_length(buffer)
          /\ byte_count = total_bytes
    /\ (/\ total_bytes >= HEADER_LEN
        /\ buffer[1] = MAGIC
        /\ total_bytes < HEADER_LEN + expected_length(buffer)) =>
          \/ ret \in {"None", "WouldBlock"}
          \/ ret = "NoMoreData" /\ peer[source_client] = "fin"
    /\ (total_bytes >= HEADER_LEN /\ ValidFrame(Accumulated)) => ret = "Ok"

C4_Witness ==
    /\ ret = "Ok"
    /\ expected_length(buffer) = 1
    /\ total_bytes = HEADER_LEN + 1

\* The first half of C5: with fewer than 8 bytes read from an open producer the
\* result is never Ok nor Invalid.
C5_NeverDecided ==
    \A c \in Conns :
        (c = source_client /\ nread[c] < HEADER_LEN /\ peer[c] = "open") =>
            ret \in {"None", "WouldBlock"}

\* C5: as long as the open producer has presented fewer than 8 bytes the result
\* is never Ok nor Invalid, and a poll that finds no data does not discard the
\* bytes already received.
C5_ShortStreamKept ==
    /\ C5_NeverDecided
    /\ \A c \in Conns :
          (/\ c = source_client
           /\ nread[c] < HEADER_LEN
           /\ peer[c] = "open"
           /\ pc = "read_loop") => Accumulated = SubSeq(Stream(c), 1, nread[c])

\* C6 as stated: a first byte other than 0xCC gives Invalid at once, also with
\* fewer than 8 bytes accumulated.
C6_InvalidBeforeHeader ==
    (total_bytes >= 1 /\ buffer[1] # MAGIC) => ret = "InvalidMagic"

\* C6 amended: a first accumulated byte other than 0xCC gives Invalid(magic) as
\* soon as 8 bytes are accumulated, whatever the flags and length fields hold, and
\* not before: with fewer than 8 bytes the decoder keeps reading.
C6_InvalidAtHeader ==
    /\ (total_bytes >= HEADER_LEN /\ buffer[1] # MAGIC) =>
          ret = "InvalidMagic"
    /\ (total_bytes \in 1..(HEADER_LEN - 1)) => ret # "InvalidMagic"
    /\ ret = "InvalidMagic" => (total_bytes >= HEADER_LEN /\ buffer[1] # MAGIC)

C6_Witness ==
    /\ ret = "InvalidMagic"
    /\ total_bytes = HEADER_LEN
    /\ buffer[1] # MAGIC

\* C7: with exactly 8+N bytes accumulated, the result is Ok iff byte 0 is 0xCC
\* and the packet is not sensitive or its checksum matches bytes 4-5; every packet
\* written to a consumer is such a packet, and a result other than Ok writes
\* nothing.
C7_AcceptedIffValid ==
    /\ (/\ total_bytes >= HEADER_LEN
        /\ total_bytes = HEADER_LEN + expected_length(buffer)) =>
          (ret = "Ok" <=>
              /\ buffer[1] = MAGIC
              /\ \/ ~FlagSensitive(buffer)
                 \/ StoredChecksum(buffer) = calculate_checksum(buffer, total_bytes))
    /\ \A j \in 1..Len(wlog) : ValidFrame(wlog[j].data)
    /\ InBroadcast => ret = "Ok"

\* A whole sensitive packet with a stale checksum was just dropped: a consumer
\* is connected and nothing was written to it.
C7_Witness ==
    /\ ret = "ChecksumWrong"
    /\ total_bytes = HEADER_LEN + expected_length(buffer)
    /\ FlagSensitive(buffer)
    /\ destination_clients # <<>>
    /\ wlog = <<>>

\* C8: a failed write to one consumer stops nothing: every consumer after it in
\* destination_clients is still visited, a consumer that is not broken receives
\* the whole packet, and the relay stays in its loop.
C8_FailureIsolated ==
    /\ pc \in {"accept_source", "accept_destination", "poll_source", "read_loop",
               "broadcast", "write_blocked"}
    /\ \A k \in 1..Len(completed) :
          LET f == completed[k]
              W == FrameWrites(k)
          IN  /\ Len(W) <= Len(f.dests)
              /\ \A i \in 1..Len(W) :
                    /\ W[i].dest = f.dests[i]
                    /\ W[i].dest \notin broken => (W[i].ok /\ W[i].data = f.data)
                    /\ (~W[i].ok /\ i < Len(f.dests)) =>
                          \/ Len(W) > i
                          \/ k = Len(completed) /\ InBroadcast /\ idx = i + 1

\* Three consumers, the second one broken: the first and the third received
\* the packet.
C8_Witness ==
    /\ Len(completed) = 1
    /\ Len(FrameWrites(1)) = 3
    /\ FrameWrites(1)[1].ok /\ FrameWrites(1)[1].data = completed[1].data
    /\ ~FrameWrites(1)[2].ok
    /\ FrameWrites(1)[3].ok /\ FrameWrites(1)[3].data = completed[1].data

\* What C9 says of every state: the accumulated and the broadcast bytes come
\* from the current producer alone.
C9_OneOrigin ==
    /\ source_client \in 0..nconn
    /\ (pc = "read_loop" \/ InBroadcast) => origin \subseteq {source_client}
    /\ InBroadcast => completed[Len(completed)].conn = source_client

\* What C9 says of every step: a waiting producer always replaces the current
\* one, and only the current producer is read from.
C9_Step ==
    /\ nconn' > nconn => source_client' = nconn'
    /\ \A c \in Conns : c # source_client => nread'[c] = nread[c]

\* C9: there is one source_client; accepting a producer replaces it whatever its
\* state; after that no byte of the replaced connection is read, nor joined to
\* bytes of the new one in the buffer, nor broadcast.
C9_SingleSource == [](C9_OneOrigin) /\ [][C9_Step]_vars

\* Connection 1 was replaced with part of a packet read; a packet of
\* connection 2 is decoded and written.
C9_Witness ==
    /\ source_client = 2
    /\ nread[1] \in 1..(HEADER_LEN - 1)
    /\ ret = "Ok"
    /\ completed[Len(completed)].conn = 2
    /\ wlog # <<>>
    /\ wlog[Len(wlog)].k = Len(completed)
    /\ wlog[Len(wlog)].ok

\* C10: writes follow the order of decoding: the packet numbers in the write
\* history never decrease, a consumer gets a packet at most once and in order,
\* the data of a write is the packet it is numbered with, and the broadcast of a
\* packet has visited every consumer before the relay reads again.
C10_InOrder ==
    /\ \A i, j \in 1..Len(wlog) :
          i < j => /\ wlog[i].k <= wlog[j].k
                   /\ wlog[i].dest = wlog[j].dest => wlog[i].k < wlog[j].k
    /\ \A j \in 1..Len(wlog) :
          /\ wlog[j].k \in 1..Len(completed)
          /\ wlog[j].data = completed[wlog[j].k].data
    /\ \A k \in 1..Len(completed) :
          (k < Len(completed) \/ ~InBroadcast) =>
              Len(FrameWrites(k)) = Len(completed[k].dests)

\* Two different packets, each written to two consumers.
C10_Witness ==
    /\ Len(completed) = 2
    /\ completed[1].data # completed[2].data
    /\ Len(wlog) = 4
    /\ \A j \in 1..4 : wlog[j].ok

\* The errors of the producer's stream: bad magic, bad checksum, end of stream.
StreamErrors == {"InvalidMagic", "ChecksumWrong", "NoMoreData"}

\* What C11 says of the step in which read_from_source returns such an error:
\* nothing is written or recorded as decoded, the consumer set and the current
\* producer stay, and the relay is back at the top of its loop.
C11_ErrorStep ==
    (pc = "read_loop" /\ ret' \in StreamErrors) =>
        /\ wlog' = wlog
        /\ completed' = completed
        /\ destination_clients' = destination_clients
        /\ source_client' = source_client
        /\ pc' = "accept_source"

\* What C11 says of every state: no byte of a discarded packet is ever written,
\* and on a producer accepted after an error a valid packet held whole is
\* returned Ok and its broadcast visits every consumer.
C11_AfterError ==
    /\ \A j \in 1..Len(wlog) :
          /\ wlog[j].k \in 1..Len(completed)
          /\ wlog[j].data = completed[wlog[j].k].data
          /\ ValidFrame(wlog[j].data)
    /\ \A c \in Conns :
          (c = source_client /\ \E e \in failed : e[1] < c) =>
              /\ (total_bytes >= HEADER_LEN /\ ValidFrame(Accumulated)) => ret = "Ok"
              /\ \A k \in 1..Len(completed) :
                    (completed[k].conn = c /\ (k < Len(completed) \/ ~InBroadcast)) =>
                        Len(FrameWrites(k)) = Len(completed[k].dests)

\* C11: an error of the producer's stream (bad magic, bad checksum, end of
\* stream) discards the packet in flight with nothing written, leaves the consumer
\* set unchanged and the relay in its loop, and a producer accepted afterwards has
\* its valid packets decoded and broadcast.
C11_ErrorIsLocal == [](C11_AfterError) /\ [][C11_ErrorStep]_vars

\* The first producer's packet failed its checksum and then its stream ended;
\* the packet of the second producer was decoded and written to the consumer,
\* which was there before the errors.
C11_Witness ==
    /\ <<1, "ChecksumWrong">> \in failed
    /\ <<1, "NoMoreData">> \in failed
    /\ source_client = 2
    /\ Len(completed) = 1
    /\ completed[1].conn = 2
    /\ completed[1].dests = <<1>>
    /\ Len(wlog) = 1
    /\ wlog[1].ok

\* C12: no call of the loop body waits: the relay is never held inside
\* write_all by a consumer that does not drain its connection, with the accepts,
\* the reads and the consumers after it in destination_clients waiting behind.
C12_NeverWaits == pc # "write_blocked"

\* The packet of a call is sensitive and holds the protocol's checksum.
Sealed(call) ==
    /\ FlagSensitive(call.data)
    /\ StoredChecksum(call.data) = RefChecksum(call.data, call.size)

\* Packet q is packet p with one bit flipped outside bytes 4-5.
OneBitApart(p, q) ==
    /\ Len(p) = Len(q)
    /\ \E at \in (1..Len(p)) \ {5, 6}, b \in 0..7 : q = [p EXCEPT ![at] = Toggle(@, b)]

\* C13: check_checksum succeeds on every sensitive packet whose stored checksum
\* is correct, and fails on that packet with any one bit flipped outside bytes
\* 4-5, the size being the same.
C13_BitFlipDetected ==
    \A k \in 1..Len(calls) :
        Sealed(calls[k]) =>
            /\ calls[k].ok
            /\ \A j \in 1..Len(calls) :
                  OneBitApart(calls[k].data, calls[j].data) => ~calls[j].ok

\* A sealed packet of 9 bytes passed, and failed with a bit of its odd last
\* byte flipped.
C13_Witness ==
    /\ Len(calls) = 3
    /\ Sealed(calls[2])
    /\ calls[2].ok
    /\ calls[2].size = HEADER_LEN + 1
    /\ calls[3].data[HEADER_LEN + 1] # calls[2].data[HEADER_LEN + 1]
    /\ ~calls[3].ok

\* C14: two buffers of the same size that differ in bytes 4-5 at most have the
\* same computed checksum.
C14_FieldIgnored ==
    \A j, k \in 1..Len(calls) :
        (/\ calls[j].size = calls[k].size
         /\ \A at \in (1..calls[j].size) \ {5, 6} : calls[j].data[at] = calls[k].data[at]) =>
            calls[j].value = calls[k].value

\* The packet as it came and the packet as sealed differ in bytes 4 and 5, in
\* both of them, and gave one checksum.
C14_Witness ==
    /\ Len(calls) >= 2
    /\ calls[1].data[5] # calls[2].data[5]
    /\ calls[1].data[6] # calls[2].data[6]
    /\ calls[1].value = calls[2].value

\* C15: calculate_checksum, which folds the carry inside its loop, returns what
\* the reference algorithm (wide sum, carries folded after the loop, complement)
\* returns, for every buffer of 8 bytes or more; sum never exceeds 0x1FFFE, and
\* is at most 0xFFFF at the end of an iteration.
C15_SameAsReference ==
    /\ cs_peak <= 2 * (U16 - 1)
    /\ cs_sum <= U16 - 1
    /\ cs_pc = "done" => calls[Len(calls)].value = calculate_checksum(cs_data, cs_size)
    /\ \A k \in 1..Len(calls) :
          /\ calls[k].size >= HEADER_LEN
          /\ calls[k].value = RefChecksum(calls[k].data, calls[k].size)

\* A buffer of odd size in whose sum a carry was folded; the wide sum of the
\* reference needed folding too.
C15_Witness ==
    /\ cs_pc = "done"
    /\ cs_size = HEADER_LEN + 1
    /\ calls[Len(calls)].peak > U16 - 1
    /\ RefSum(cs_data, cs_size, 0) > 2 * (U16 - 1)

\* What C16 says of every state: 8 bytes or more with a first byte other than
\* 0xCC are never held without the call having returned the magic error, and a
\* checksum error is never that of such a packet.
C16_NoFurtherRead ==
    /\ (total_bytes >= HEADER_LEN /\ buffer[1] # MAGIC) =>
          /\ ret = "InvalidMagic"
          /\ pc # "read_loop"
          /\ ~InBroadcast
    /\ ret = "ChecksumWrong" => buffer[1] = MAGIC

\* What C16 says of every step: the read that brings the count to 8 or more
\* with a first byte other than 0xCC is the last of its call, whatever the flags
\* and the declared length, and nothing is decoded or written.
C16_Step ==
    (pc = "read_loop" /\ total_bytes' >= HEADER_LEN /\ buffer'[1] # MAGIC) =>
        /\ ret' = "InvalidMagic"
        /\ pc' = "accept_source"
        /\ completed' = completed
        /\ wlog' = wlog

\* C16: with 8 bytes or more accumulated and byte 0 other than 0xCC the decoder
\* returns the magic error at once: it reads no further byte of the declared
\* payload and makes no checksum check, whatever the flags and the length say.
C16_BadMagicAtOnce == [](C16_NoFurtherRead) /\ [][C16_Step]_vars

\* A packet with a wrong magic byte, the sensitive flag, a declared payload of
\* one byte and a wrong checksum: refused on its 8 header bytes, the payload
\* byte unread.
C16_Witness ==
    /\ ret = "InvalidMagic"
    /\ total_bytes = HEADER_LEN
    /\ FlagSensitive(buffer)
    /\ expected_length(buffer) = 1
    /\ Unread(source_client) = 1
    /\ failed = {<<source_client, "InvalidMagic">>}

\* What C17 says of every state: once the current producer's stream has ended
\* no call returns Ok, and the relay is in its loop.
C17_AfterEnd ==
    /\ pc \in {"accept_source", "accept_destination", "poll_source", "read_loop",
               "broadcast", "write_blocked"}
    /\ \A c \in Conns :
          (c = source_client /\ peer[c] = "fin") =>
              /\ ret \in {"None", "NoMoreData"}
              /\ ~InBroadcast

\* What C17 says of every step: a read that finds the end of the stream ends
\* the call with the error, whatever was accumulated; nothing is decoded, the
\* producer stays installed and the relay is back at the top of its loop.
C17_Step ==
    (pc = "read_loop" /\ peer'[source_client] = "fin") =>
        /\ ret' = "NoMoreData"
        /\ completed' = completed
        /\ source_client' = source_client
        /\ pc' = "accept_source"

\* C17: end of stream with less than a whole packet accumulated gives Invalid,
\* never Ok; the closed producer stays the current producer and the relay goes
\* on running and accepting.
C17_EndOfStream == [](C17_AfterEnd) /\ [][C17_Step]_vars

\* The first producer's stream ended; the relay accepted a second producer,
\* whose stream ended with 4 bytes of a header accumulated: Invalid, and the
\* second producer is still installed.
C17_Witness ==
    /\ <<1, "NoMoreData">> \in failed
    /\ source_client = 2
    /\ peer[2] = "fin"
    /\ ret = "NoMoreData"
    /\ total_bytes = 4
    /\ buffer[1] = MAGIC
    /\ pc = "accept_source"

\* Sequence p is the beginning of sequence q.
IsPrefix(p, q) == Len(p) <= Len(q) /\ SubSeq(q, 1, Len(p)) = p

\* What C18 says of every step: destination_clients keeps its entries in
\* their order, and gets at most one more, at its end, from the accept of line
\* 154.
C18_Step ==
    /\ IsPrefix(destination_clients, destination_clients')
    /\ Len(destination_clients') <= Len(destination_clients) + 1
    /\ destination_clients' # destination_clients => pc = "accept_destination"

\* What C18 says of every state: the consumer set each packet was broadcast to
\* begins the set of every later packet and the present one, no consumer is in
\* it twice, and a consumer whose write failed is written to for every later
\* packet.
C18_Grows ==
    /\ \A i, j \in 1..Len(destination_clients) :
          destination_clients[i] = destination_clients[j] => i = j
    /\ \A k \in 1..Len(completed) :
          /\ IsPrefix(completed[k].dests, destination_clients)
          /\ \A m \in 1..k : IsPrefix(completed[m].dests, completed[k].dests)
    /\ \A j \in 1..Len(wlog) :
          ~wlog[j].ok =>
              \A k \in (wlog[j].k + 1)..Len(completed) :
                  (k < Len(completed) \/ ~InBroadcast) =>
                      \E m \in 1..Len(wlog) : wlog[m].k = k /\ wlog[m].dest = wlog[j].dest

\* C18: the consumer set only grows, by one entry at its end per loop
\* iteration at most; nothing removes or reorders an entry, a failed write
\* included, and a consumer whose write failed is attempted again for every
\* later packet.
C18_AppendOnly == [](C18_Grows) /\ [][C18_Step]_vars

\* The write of the first packet to consumer 1 failed; consumer 2 joined; the
\* second packet was attempted on consumer 1 again, then written to consumer 2.
C18_Witness ==
    /\ Len(completed) = 2
    /\ completed[1].dests = <<1>>
    /\ completed[2].dests = <<1, 2>>
    /\ Len(wlog) = 3
    /\ wlog[1].dest = 1 /\ ~wlog[1].ok
    /\ wlog[2].dest = 1 /\ wlog[2].k = 2
    /\ wlog[3].dest = 2 /\ wlog[3].ok

\* The positions in the write history of the writes of packet k to consumer d.
WritesTo(d, k) == {j \in 1..Len(wlog) : wlog[j].dest = d /\ wlog[j].k = k}

\* What C19 says of every state: a packet is written to a consumer once at
\* most, failed or not, and only to the consumers that were in the set when it
\* was decoded.
C19_OncePerConsumer ==
    \A k \in 1..Len(completed) :
        /\ \A d \in 1..Len(destination_clients) :
              /\ Cardinality(WritesTo(d, k)) <= 1
              /\ (\A i \in 1..Len(completed[k].dests) : completed[k].dests[i] # d) =>
                    WritesTo(d, k) = {}
        /\ Len(FrameWrites(k)) <= Len(completed[k].dests)

\* What C19 says of every step: an Ok starts one broadcast, and a write is a
\* write of the packet just decoded, never of an earlier one.
C19_Step ==
    /\ completed' # completed =>
          /\ Len(completed') = Len(completed) + 1
          /\ pc = "read_loop" /\ pc' = "broadcast"
          /\ idx' = 1
          /\ wlog' = wlog
    /\ wlog' # wlog =>
          /\ Len(wlog') = Len(wlog) + 1
          /\ SubSeq(wlog', 1, Len(wlog)) = wlog
          /\ wlog'[Len(wlog')].k = Len(completed)
          /\ completed' = completed
          /\ pc = "broadcast"

\* C19: each Ok packet is broadcast once; a packet whose write to a consumer
\* failed is not sent to it again, and a consumer accepted after the broadcast of
\* a packet never gets that packet.
C19_AtMostOnce == [](C19_OncePerConsumer) /\ [][C19_Step]_vars

\* Both packets are through: the first was lost to consumer 1, whose write
\* failed, and never reached consumer 2, accepted after it; the second one is
\* all that consumer 2 got.
C19_Witness ==
    /\ Len(completed) = 2
    /\ completed[1].data # completed[2].data
    /\ pc = "accept_source"
    /\ Cardinality(WritesTo(1, 1)) = 1
    /\ \A j \in WritesTo(1, 1) : ~wlog[j].ok
    /\ WritesTo(2, 1) = {}
    /\ Cardinality(WritesTo(2, 2)) = 1
    /\ \A j \in WritesTo(2, 2) : wlog[j].ok

\* What C20 says of every state of a relay whose buffer has SmallBuffer bytes:
\* the count, the bytes written and the slice that is broadcast stay within the
\* buffer, the header is only looked at when it is there, an Ok size is 8 plus
\* the declared length, and a call that ends with "no more data" on an open
\* stream is one that filled the buffer.
C20_InBounds ==
    /\ HEADER_LEN + (U16 - 1) <= BUFFER_SIZE
    /\ total_bytes <= SmallBuffer
    /\ Len(buffer) <= SmallBuffer
    /\ InBroadcast => (byte_count <= Len(buffer) /\ idx \in 1..(Len(destination_clients) + 1))
    /\ ret \in {"Ok", "InvalidMagic", "ChecksumWrong"} => Len(buffer) >= HEADER_LEN
    /\ ret = "Ok" =>
          /\ byte_count = HEADER_LEN + expected_length(buffer)
          /\ byte_count <= HEADER_LEN + (U16 - 1)
    /\ \A c \in Conns :
          (c = source_client /\ ret = "NoMoreData" /\ peer[c] = "open") =>
              total_bytes = SmallBuffer

\* What C20 says of every step: a read never takes more than the room left,
\* and with the buffer full the next iteration returns the error.
C20_Step ==
    /\ total_bytes' <= SmallBuffer
    /\ (pc = "read_loop" /\ total_bytes = SmallBuffer) =>
          /\ ret' = "NoMoreData"
          /\ pc' = "accept_source"
          /\ total_bytes' = total_bytes
          /\ completed' = completed

\* C20: the accumulated count never exceeds the capacity of the buffer, every
\* index into the buffer is in range, an Ok size is 8 plus the declared length
\* (at most 8 + 65535), and a buffer that fills without a packet completing ends
\* the call with an error.
C20_BufferBounds == [](C20_InBounds) /\ [][C20_Step]_vars

\* Two packets arrived together: the buffer filled up with the first and part
\* of the second, and the call ended with the error, the producer still open.
C20_Witness ==
    /\ ret = "NoMoreData"
    /\ total_bytes = SmallBuffer
    /\ peer[source_client] = "open"
    /\ Unread(source_client) > 0
    /\ completed = <<>>

====
